---- MODULE Spec2Model ----
(***************************************************************************)
(* Model of add_files_simple.py: the Xcode project updater.               *)
(*                                                                         *)
(* The manifest (project.pbxproj) is a text; here it is a sequence of      *)
(* lines, each line a record naming its kind and the parts the script's    *)
(* f-strings and regular expressions read or write.  File names and the    *)
(* text of a `path = ...;` attribute are sequences of symbols, so that     *)
(* writing a file reference and finding it again with the regular          *)
(* expression of extract_existing_files is a real round trip.              *)
(***************************************************************************)
EXTENDS Integers, Sequences, FiniteSets, TLC

VARIABLES
    pc,               \* where main()/run() stands
    run,              \* number of the current invocation of main()
    projDir,          \* VoiceControl.xcodeproj exists in the working directory
    disk,             \* project.pbxproj on disk: [text, eol]
    tree,             \* the *.swift files under VoiceControl/
    project_content,  \* self.project_content
    existing_files,   \* self.existing_files
    files_to_add,     \* self.files_to_add
    next_uuid,        \* the next token generate_uuid hands out
    out,              \* what this invocation printed
    ops,              \* the methods this invocation executed, in order
    pre,              \* project.pbxproj on disk when this invocation started
    uuidCalls         \* generate_uuid calls of this invocation

vars == <<pc, run, projDir, disk, tree, project_content, existing_files,
          files_to_add, next_uuid, out, ops, pre, uuidCalls>>

----------------------------------------------------------------------------
(* Bounds *)

MaxFiles == 2

MaxRuns == 2

\* the most lines a failing write leaves in the file
MaxPartial == 1

----------------------------------------------------------------------------
(* Symbols, file names, the source tree *)

\* the six characters ".swift", read as one symbol
DotSwift == ".swift"

\* base names rglob("*.swift") yields: a plain one, one holding a semicolon
\* and one starting with a double quote
FileNames ==
    { <<"a", DotSwift>>,
      <<"a", ";", "b", DotSwift>>,
      <<"\"", "q", DotSwift>> }

\* the directory of a file relative to VoiceControl/: the root or Core/
SubDirs == { <<>>, <<"Core">> }

SourceFiles == [dir : SubDirs, name : FileNames]

Trees == { t \in SUBSET SourceFiles : Cardinality(t) <= MaxFiles }

\* all orders in which a finite set can be enumerated
Orders(S) ==
    { s \in [1..Cardinality(S) -> S] :
        \A i, j \in 1..Cardinality(S) : s[i] = s[j] => i = j }

----------------------------------------------------------------------------
(* Lines of the manifest *)

Line(t, id, ref, name, path) ==
    [t |-> t, id |-> id, ref |-> ref, name |-> name, path |-> path]

\* the first line of every project.pbxproj, standing for the text of the
\* manifest the script never looks at
ArchiveHeader == Line("// !$*UTF8*$!", 0, 0, <<>>, <<>>)

EndBuildMarker == Line("End PBXBuildFile section", 0, 0, <<>>, <<>>)

EndFileRefMarker == Line("End PBXFileReference section", 0, 0, <<>>, <<>>)

\* "/* Sources */ = { ... files = (" and what follows up to the next ")"
SourcesAnchor == Line("Sources files = (", 0, 0, <<>>, <<>>)

\* "path = <group>; ... children = (" and what follows up to the next ")"
GroupAnchor(g) == Line("children = (", 0, 0, <<>>, <<g>>)

ListClose == Line(")", 0, 0, <<>>, <<>>)

\* a file reference Xcode wrote earlier for a.swift
OldFileRef == Line("PBXFileReference", 1, 0, <<"a", DotSwift>>, <<"a", DotSwift>>)

BuildEntryBadRef(fi) ==
    Line("PBXBuildFile", fi.build_ref, fi.build_ref, fi.filename, <<>>)

\* line 96
BuildEntry(fi) ==
    Line("PBXBuildFile", fi.build_ref, fi.file_ref, fi.filename, <<>>)

\* line 102
FileRefEntry(fi) ==
    Line("PBXFileReference", fi.file_ref, 0, fi.filename, fi.filename)

\* line 131
SourcesEntry(fi) ==
    Line("Sources member", fi.build_ref, 0, fi.filename, <<>>)

\* line 158
GroupEntry(fi) ==
    Line("group child", fi.file_ref, 0, fi.filename, <<>>)

Entries(files, Mk(_)) == [i \in 1..Len(files) |-> Mk(files[i])]

\* content[:pos] + lines + content[pos:], pos the index of the line the
\* new lines are put in front of
Insert(content, pos, lines) ==
    SubSeq(content, 1, pos - 1) \o lines \o SubSeq(content, pos, Len(content))

Min(S) == CHOOSE x \in S : \A y \in S : x <= y

\* re.search for a marker: the index of its first occurrence, 0 for None
Search(content, marker) ==
    LET hits == { i \in 1..Len(content) : content[i] = marker }
    IN  IF hits = {} THEN 0 ELSE Min(hits)

\* the end of the match of an anchor followed by [^)]+ : the index of the
\* first ")" after the anchor (the end of the text when there is none),
\* 0 when the anchor is not found
AnchorEnd(content, anchor) ==
    LET at == Search(content, anchor)
        closes == { i \in (at + 1)..Len(content) : content[i] = ListClose }
    IN  IF at = 0 THEN 0
        ELSE IF closes = {} THEN Len(content) + 1
        ELSE Min(closes)

SourcesMatchOrAppend(content) ==
    IF Search(content, SourcesAnchor) = 0 THEN Len(content) + 1
    ELSE AnchorEnd(content, SourcesAnchor)

\* lines 125-126: where the Sources build phase takes new members
SourcesMatch(content) == AnchorEnd(content, SourcesAnchor)

\* lines 152-153: where a group takes new children
GroupMatch(content, g) == AnchorEnd(content, GroupAnchor(g))

----------------------------------------------------------------------------
(* The file on disk *)

\* open(path, 'r').read(): text mode translates \r\n to \n
ReadText(file) == file.text

\* open(path, 'w').write(text): text mode writes \n as os.linesep (POSIX)
WriteText(text) == [text |-> text, eol |-> "LF"]

Manifests ==
    { [text |->    <<ArchiveHeader>>
                \o (IF be THEN <<EndBuildMarker>> ELSE <<>>)
                \o (IF old THEN <<OldFileRef>> ELSE <<>>)
                \o (IF fe THEN <<EndFileRefMarker>> ELSE <<>>)
                \o (IF "VoiceControl" \in gs
                      THEN <<GroupAnchor("VoiceControl"), ListClose>> ELSE <<>>)
                \o (IF "Core" \in gs
                      THEN <<GroupAnchor("Core"), ListClose>> ELSE <<>>)
                \o (IF src THEN <<SourcesAnchor, ListClose>> ELSE <<>>),
       eol |-> e] :
        be \in BOOLEAN, fe \in BOOLEAN, old \in BOOLEAN, src \in BOOLEAN,
        gs \in SUBSET {"VoiceControl", "Core"}, e \in {"LF", "CRLF"} }

----------------------------------------------------------------------------
(* extract_existing_files *)

\* the index of the first ";" of path;  (the ";" that closes the attribute
\* when the path holds none)
FirstSemi(path) ==
    Min({ i \in 1..Len(path) : path[i] = ";" } \cup {Len(path) + 1})

\* r'path = ([^;]+\.swift);' : one character or more that is no ";", then
\* ".swift", then ";"
PathMatches(path) ==
    LET j == FirstSemi(path)
    IN  j >= 3 /\ path[j - 1] = DotSwift

PathCapture(path) == SubSeq(path, 1, FirstSemi(path) - 1)

RECURSIVE LStrip(_)
LStrip(s) == IF s # <<>> /\ Head(s) = "\"" THEN LStrip(Tail(s)) ELSE s

RECURSIVE RStrip(_)
RStrip(s) ==
    IF s # <<>> /\ s[Len(s)] = "\"" THEN RStrip(SubSeq(s, 1, Len(s) - 1)) ELSE s

\* match.strip('"')
StripQuotes(s) == RStrip(LStrip(s))

\* lines 43-49
ExtractExistingFiles(content) ==
    { StripQuotes(PathCapture(content[i].path)) :
        i \in { k \in 1..Len(content) : PathMatches(content[k].path) } }

----------------------------------------------------------------------------
(* find_new_swift_files *)

NotInProjectAlways(filename, existing) == TRUE

\* line 59
NotInProject(filename, existing) == filename \notin existing

\* lines 61-65
GroupOf(f) == IF Len(f.dir) + 1 > 1 THEN f.dir[1] ELSE "VoiceControl"

\* lines 67-72; the two tokens are not set yet
FileInfo(f) ==
    [path |-> f, filename |-> f.name, group |-> GroupOf(f),
     file_ref |-> 0, build_ref |-> 0]

\* lines 55-72, for the order in which rglob yields the files
FindNewSwiftFiles(order, existing) ==
    LET new == SelectSeq(order, LAMBDA f : NotInProject(f.name, existing))
    IN  [i \in 1..Len(new) |-> FileInfo(new[i])]

----------------------------------------------------------------------------
(* update_project *)

\* lines 31-33: the n-th token uuid4 hands out; tokens do not repeat
generate_uuid(n) == n

\* lines 81-83
WithUuids(files, base) ==
    [i \in 1..Len(files) |->
        [files[i] EXCEPT !.file_ref = generate_uuid(base + 2 * (i - 1)),
                         !.build_ref = generate_uuid(base + 2 * (i - 1) + 1)]]

\* lines 86-89
InsertionPointsFound(content) ==
    /\ Search(content, EndBuildMarker) # 0
    /\ Search(content, EndFileRefMarker) # 0

\* lines 105-111
InsertBuildFiles(content, files) ==
    Insert(content, Search(content, EndBuildMarker), Entries(files, BuildEntry))

\* lines 113-122
InsertFileRefs(content, files) ==
    Insert(content, Search(content, EndFileRefMarker), Entries(files, FileRefEntry))

\* lines 124-139
AddToSources(content, files) ==
    IF SourcesMatch(content) # 0
    THEN Insert(content, SourcesMatch(content), Entries(files, SourcesEntry))
    ELSE content

\* lines 145-166
add_files_to_group(content, files, group_name) ==
    LET group_files == SelectSeq(files, LAMBDA f : f.group = group_name)
    IN  IF group_files = <<>> THEN content
        ELSE IF GroupMatch(content, group_name) # 0
        THEN Insert(content, GroupMatch(content, group_name),
                    Entries(group_files, GroupEntry))
        ELSE content

\* lines 142-143, for the order in which the set of groups is iterated
RECURSIVE AddToGroups(_, _, _)
AddToGroups(content, files, groups) ==
    IF groups = <<>> THEN content
    ELSE AddToGroups(add_files_to_group(content, files, Head(groups)),
                     files, Tail(groups))

GroupsOf(files) == { files[i].group : i \in 1..Len(files) }

\* lines 93-143
Patched(content, files, groups) ==
    AddToGroups(
        AddToSources(InsertFileRefs(InsertBuildFiles(content, files), files), files),
        files, groups)

----------------------------------------------------------------------------
(* main and run *)

GateAlwaysOpen == TRUE

\* line 206: os.path.exists("VoiceControl.xcodeproj")
ProjectDirExists == projDir

HasPendingAlways == TRUE

\* line 184: if self.files_to_add
HasPending == files_to_add # <<>>

Init ==
    /\ pc = "main"
    /\ run = 1
    /\ projDir \in BOOLEAN
    /\ disk \in Manifests
    /\ tree \in Trees
    /\ project_content = <<>>
    /\ existing_files = {}
    /\ files_to_add = <<>>
    /\ next_uuid = 2
    /\ out = <<>>
    /\ ops = <<>>
    /\ pre = disk
    /\ uuidCalls = 0

\* lines 203-212
Main ==
    /\ pc = "main"
    /\ IF ~ProjectDirExists
       THEN /\ out' = out \o <<"Error: VoiceControl.xcodeproj not found in current directory",
                               "Please run this script from the project root directory">>
            /\ pc' = "returned"
       ELSE /\ out' = out
            /\ pc' = "read_project"
    /\ project_content' = <<>>
    /\ existing_files' = {}
    /\ files_to_add' = <<>>
    /\ UNCHANGED <<run, projDir, disk, tree, next_uuid, ops, pre, uuidCalls>>

\* lines 175-176, 35-38
ReadProject ==
    /\ pc = "read_project"
    /\ out' = Append(out, "Reading project file...")
    /\ ops' = Append(ops, "read_project")
    /\ project_content' = ReadText(disk)
    /\ pc' = "extract_existing_files"
    /\ UNCHANGED <<run, projDir, disk, tree, existing_files, files_to_add,
                   next_uuid, pre, uuidCalls>>

\* lines 178-179, 40-49
ExtractExisting ==
    /\ pc = "extract_existing_files"
    /\ out' = Append(out, "Extracting existing files...")
    /\ ops' = Append(ops, "extract_existing_files")
    /\ existing_files' = existing_files \cup ExtractExistingFiles(project_content)
    /\ pc' = "find_new_swift_files"
    /\ UNCHANGED <<run, projDir, disk, tree, project_content, files_to_add,
                   next_uuid, pre, uuidCalls>>

\* lines 181-182, 51-72
FindNew ==
    /\ pc = "find_new_swift_files"
    /\ out' = Append(out, "Finding new Swift files...")
    /\ ops' = Append(ops, "find_new_swift_files")
    /\ \E order \in Orders(tree) :
          files_to_add' = files_to_add \o FindNewSwiftFiles(order, existing_files)
    /\ pc' = "scanned"
    /\ UNCHANGED <<run, projDir, disk, tree, project_content, existing_files,
                   next_uuid, pre, uuidCalls>>

\* lines 184-190, 74-143
UpdateProject ==
    /\ pc = "scanned"
    /\ HasPending
    /\ ops' = Append(ops, "update_project")
    /\ pc' = "write_project"
    /\ IF files_to_add = <<>>
       THEN /\ out' = out \o <<"Found new files to add", "Updating project file...",
                               "No new files to add">>
            /\ UNCHANGED <<files_to_add, next_uuid, uuidCalls, project_content>>
       ELSE /\ files_to_add' = WithUuids(files_to_add, next_uuid)
            /\ next_uuid' = next_uuid + 2 * Len(files_to_add)
            /\ uuidCalls' = uuidCalls + 2 * Len(files_to_add)
            /\ IF ~InsertionPointsFound(project_content)
               THEN /\ out' = out \o <<"Found new files to add", "Updating project file...",
                                       "Could not find proper insertion points">>
                    /\ UNCHANGED project_content
               ELSE /\ out' = out \o <<"Found new files to add", "Updating project file...">>
                    /\ \E groups \in Orders(GroupsOf(files_to_add)) :
                          project_content' =
                              Patched(project_content, files_to_add', groups)
    /\ UNCHANGED <<run, projDir, disk, tree, existing_files, pre>>

\* lines 200-201
NothingToAdd ==
    /\ pc = "scanned"
    /\ ~HasPending
    /\ out' = Append(out, "No new files found to add.")
    /\ pc' = "returned"
    /\ UNCHANGED <<run, projDir, disk, tree, project_content, existing_files,
                   files_to_add, next_uuid, ops, pre, uuidCalls>>

\* lines 192-193, 170: open(self.project_path, 'w') empties the file
WriteOpen ==
    /\ pc = "write_project"
    /\ out' = Append(out, "Writing updated project file...")
    /\ ops' = Append(ops, "write_project")
    /\ disk' = WriteText(<<>>)
    /\ pc' = "writing"
    /\ UNCHANGED <<run, projDir, tree, project_content, existing_files,
                   files_to_add, next_uuid, pre, uuidCalls>>

\* line 170: open raises (the file cannot be opened for writing)
WriteOpenFails ==
    /\ pc = "write_project"
    /\ out' = Append(out, "Writing updated project file...")
    /\ ops' = Append(ops, "write_project")
    /\ pc' = "raised"
    /\ UNCHANGED <<run, projDir, disk, tree, project_content, existing_files,
                   files_to_add, next_uuid, pre, uuidCalls>>

\* lines 171, 195-199
WriteData ==
    /\ pc = "writing"
    /\ disk' = WriteText(project_content)
    /\ out' = Append(out, "Project updated successfully!")
    /\ pc' = "returned"
    /\ UNCHANGED <<run, projDir, tree, project_content, existing_files,
                   files_to_add, next_uuid, ops, pre, uuidCalls>>

\* line 171: the write (or the flush on close) raises after part of the
\* text reached the file
WriteDataFails ==
    /\ pc = "writing"
    /\ \E k \in 0..(Len(project_content) - 1) :
          /\ k <= MaxPartial
          /\ disk' = WriteText(SubSeq(project_content, 1, k))
    /\ pc' = "raised"
    /\ UNCHANGED <<run, projDir, tree, project_content, existing_files,
                   files_to_add, next_uuid, out, ops, pre, uuidCalls>>

\* lines 214-215: the script is started again, the source tree unchanged
RunAgain ==
    /\ pc = "returned"
    /\ run < MaxRuns
    /\ run' = run + 1
    /\ pc' = "main"
    /\ pre' = disk
    /\ out' = <<>>
    /\ ops' = <<>>
    /\ uuidCalls' = 0
    /\ project_content' = <<>>
    /\ existing_files' = {}
    /\ files_to_add' = <<>>
    /\ UNCHANGED <<projDir, disk, tree, next_uuid>>

Next ==
    \/ Main
    \/ ReadProject
    \/ ExtractExisting
    \/ FindNew
    \/ UpdateProject
    \/ NothingToAdd
    \/ WriteOpen
    \/ WriteOpenFails
    \/ WriteData
    \/ WriteDataFails
    \/ RunAgain

Spec == Init /\ [][Next]_vars

----------------------------------------------------------------------------
(* Properties *)

Range(s) == { s[i] : i \in 1..Len(s) }

Count(content, P(_)) == Cardinality({ i \in 1..Len(content) : P(content[i]) })

Pending == { files_to_add[i] : i \in 1..Len(files_to_add) }

Scanned == "find_new_swift_files" \in Range(ops)

Updated == "update_project" \in Range(ops)

\* the text the invocation read (or would read) from the manifest
PreText == ReadText(pre)

\* C1: when main() is run again on a manifest holding both end-markers, with
\* no source file added in between, the second run finds no pending file and
\* inserts nothing.
C1_SecondRunAddsNothing ==
    (run >= 2 /\ Scanned /\ InsertionPointsFound(PreText))
        => (files_to_add = <<>> /\ project_content = PreText)

\* C2: when the build-entries end-marker or the file-reference end-marker is
\* absent, the manifest on disk after the run is identical to the manifest
\* on disk before the run.
C2_AbsentMarkerLeavesDiskIdentical ==
    (pc = "returned" /\ ~InsertionPointsFound(PreText)) => disk = pre

\* C3: of the source files sharing a base name that is not in the manifest,
\* only the first scanned becomes a pending file; after the run the manifest
\* has gained at most one file reference per base name.
C3_OnePendingFilePerBaseName ==
    /\ Scanned =>
          \A i, j \in 1..Len(files_to_add) :
              files_to_add[i].filename = files_to_add[j].filename => i = j
    /\ pc = "returned" =>
          \A n \in FileNames :
              Count(disk.text, LAMBDA l : l.t = "PBXFileReference" /\ l.path = n)
                  <= Count(PreText, LAMBDA l : l.t = "PBXFileReference" /\ l.path = n) + 1

\* C4: once the diagnostic for a missing end-marker is printed, the run
\* performs no write step and reports no success.
C4_DiagnosticEndsTheRun ==
    "Could not find proper insertion points" \in Range(out)
        => /\ "write_project" \notin Range(ops)
           /\ "Project updated successfully!" \notin Range(out)

\* C5: when write_project fails after the text was patched in memory, the
\* error propagates and the manifest on disk still holds its content from
\* before the run.
C5_WriteFailureLeavesManifest ==
    (pc = "raised" /\ Updated /\ InsertionPointsFound(PreText)) => disk = pre

\* C6: after the scan the pending list holds every source file whose base
\* name is not in the existing-file set, each exactly once, and no file whose
\* base name is in that set.
C6_DetectionComplete ==
    Scanned =>
        /\ \A f \in tree :
              f.name \notin existing_files =>
                  Cardinality({ i \in 1..Len(files_to_add) : files_to_add[i].path = f }) = 1
        /\ \A i \in 1..Len(files_to_add) :
              /\ files_to_add[i].path \in tree
              /\ files_to_add[i].filename = files_to_add[i].path.name
              /\ files_to_add[i].filename \notin existing_files

\* a scan that skips one file as existing and reports another as new
C6_Witness ==
    /\ pc = "scanned"
    /\ \E f, g \in tree : f.name \in existing_files /\ g.name \notin existing_files
    /\ Len(files_to_add) = 1

\* C7: without the project-descriptor directory main() prints the error and
\* returns: nothing is read, scanned or written.
C7_GateClosed ==
    ~projDir =>
        /\ pc \in {"main", "returned"}
        /\ ops = <<>>
        /\ project_content = <<>> /\ existing_files = {} /\ files_to_add = <<>>
        /\ disk = pre
        /\ pc = "returned" =>
              out = <<"Error: VoiceControl.xcodeproj not found in current directory",
                      "Please run this script from the project root directory">>

\* main() has returned without the directory, new files waiting in the tree
C7_Witness ==
    /\ ~projDir
    /\ pc = "returned"
    /\ tree # {}
    /\ InsertionPointsFound(PreText)

\* C8: when the scan yields no pending file the run reports it and stops: no
\* identifier is generated, update_project and write_project do not run, and
\* the manifest on disk is unchanged.
C8_NothingToAddStops ==
    (Scanned /\ files_to_add = <<>>) =>
        /\ pc \in {"scanned", "returned"}
        /\ uuidCalls = 0
        /\ "update_project" \notin Range(ops)
        /\ "write_project" \notin Range(ops)
        /\ disk = pre
        /\ project_content = PreText
        /\ pc = "returned" => out[Len(out)] = "No new files found to add."

\* a run over a tree whose only file is already in the manifest has returned
C8_Witness ==
    /\ pc = "returned"
    /\ Scanned
    /\ files_to_add = <<>>
    /\ tree # {}
    /\ run = 1

\* C9: after update_project on a manifest with both end-markers and the
\* Sources anchor, every pending file has exactly one build entry, one file
\* reference and one build-phase membership line; the build entry's fileRef is
\* the token of the file's own file reference, the membership line carries the
\* token of the file's own build entry, and no token serves two files.
C9_ReferentialConsistency ==
    (Updated /\ InsertionPointsFound(PreText) /\ Search(PreText, SourcesAnchor) # 0) =>
        /\ \A fi \in Pending :
              /\ Count(project_content,
                       LAMBDA l : l.t = "PBXBuildFile" /\ l.id = fi.build_ref) = 1
              /\ Count(project_content,
                       LAMBDA l : /\ l.t = "PBXBuildFile" /\ l.id = fi.build_ref
                                  /\ l.ref = fi.file_ref /\ l.name = fi.filename) = 1
              /\ Count(project_content,
                       LAMBDA l : l.t = "PBXFileReference" /\ l.id = fi.file_ref) = 1
              /\ Count(project_content,
                       LAMBDA l : /\ l.t = "PBXFileReference" /\ l.id = fi.file_ref
                                  /\ l.path = fi.filename) = 1
              /\ Count(project_content,
                       LAMBDA l : l.t = "Sources member" /\ l.id = fi.build_ref) = 1
              /\ Count(project_content,
                       LAMBDA l : /\ l.t = "Sources member" /\ l.id = fi.build_ref
                                  /\ l.name = fi.filename) = 1
              /\ fi.file_ref # fi.build_ref
        /\ \A fi, fj \in Pending :
              fi # fj => {fi.file_ref, fi.build_ref} \cap {fj.file_ref, fj.build_ref} = {}
        /\ \A k \in {"PBXBuildFile", "PBXFileReference", "Sources member"} :
              Count(project_content, LAMBDA l : l.t = k)
                  = Count(PreText, LAMBDA l : l.t = k) + Len(files_to_add)

\* two pending files, one of them beside a file reference Xcode wrote, patched
\* into a manifest that has the three anchors
C9_Witness ==
    /\ pc = "write_project"
    /\ Updated
    /\ InsertionPointsFound(PreText)
    /\ Search(PreText, SourcesAnchor) # 0
    /\ Len(files_to_add) = 2
    /\ Search(PreText, OldFileRef) # 0

\* C10: with both end-markers present, a missing Sources anchor or group
\* anchor does not abort the run: every pending file gets its build entry and
\* file reference and the manifest is written; only the lines of the missing
\* anchor are left out (no build-phase membership line, no group-membership
\* line for the files of that group), the other anchors get theirs.
C10_MissingAnchorNotFatal ==
    (Updated /\ InsertionPointsFound(PreText)) =>
        /\ "Could not find proper insertion points" \notin Range(out)
        /\ \A fi \in Pending :
              /\ Count(project_content, LAMBDA l : l = BuildEntry(fi)) = 1
              /\ Count(project_content, LAMBDA l : l = FileRefEntry(fi)) = 1
              /\ Count(project_content,
                       LAMBDA l : l.t = "Sources member" /\ l.id = fi.build_ref)
                    = IF Search(PreText, SourcesAnchor) = 0 THEN 0 ELSE 1
              /\ Count(project_content,
                       LAMBDA l : l.t = "group child" /\ l.id = fi.file_ref)
                    = IF Search(PreText, GroupAnchor(fi.group)) = 0 THEN 0 ELSE 1
        /\ Search(PreText, SourcesAnchor) = 0 =>
              Count(project_content, LAMBDA l : l.t = "Sources member") = 0
        /\ pc = "returned" =>
              /\ "write_project" \in Range(ops)
              /\ disk = WriteText(project_content)
              /\ out[Len(out)] = "Project updated successfully!"

\* a run has written a patch for two files of different groups into a
\* manifest without the Sources anchor and without one of the two group anchors
C10_Witness ==
    /\ pc = "returned"
    /\ Updated
    /\ InsertionPointsFound(PreText)
    /\ Search(PreText, SourcesAnchor) = 0
    /\ \E fi, fj \in Pending :
          /\ Search(PreText, GroupAnchor(fi.group)) = 0
          /\ Search(PreText, GroupAnchor(fj.group)) # 0

====
